---- MODULE Spec2Model ----
(***************************************************************************)
(* Tool-augmented conversation turn of the three orchestrators of the      *)
(* repository:                                                             *)
(*   "aerolinea"  : 9_Herramientas/asistente_aerolinea.py  (chat)          *)
(*   "simple"     : 10_Asistentes_Multimodales/tutor_robotica_simple.py    *)
(*   "multimodal" : 10_Asistentes_Multimodales/tutor_robotica_multimodal.py*)
(* and the turn of the streaming tutor, which has no tools:                *)
(*   "gradio"     : 8_Asistente_IA/tutor_robotica_gradio/                  *)
(*                  tutor_robotica_gradio.py                               *)
(* A turn is cut at the calls that leave the program: the two endpoint     *)
(* requests and every tool dispatch (tools call the image / speech APIs).  *)
(* Further specifications, each on its own variables, follow the claims    *)
(* of the turn: SpecConcurrente (overlapping UI handlers on one tutor),    *)
(* SpecConfig (level, language and system prompt of the tutors), SpecTres  *)
(* (conversacion_tres_modelos.py) and SpecStream (chat_with_model and the  *)
(* streaming chat of the Gradio tutor, chunk by chunk).                    *)
(***************************************************************************)
EXTENDS Integers, Sequences, FiniteSets

VARIABLES
    app,                     \* which script is running
    pc,                      \* position of the turn operation
    turnos,                  \* turn operations started so far
    history,                 \* aerolinea: the caller's history argument of chat
    historial,               \* tutors: the chat history kept by the UI wrapper
                             \* (gradio: the chatbot's [user, assistant] pairs)
    historial_conversacion,  \* tutors: self.historial_conversacion
    mensaje,                 \* the user message of the current / last turn
    mensajes,                \* working message list of the current / last turn
    finish_reason,           \* finish reason of the first endpoint response
    tool_calls,              \* message.tool_calls of the first response
    idx,                     \* position of the dispatch loop in tool_calls
    imagen_resultado,        \* local of responder (multimodal)
    audio_resultado,         \* local of responder (tutors)
    ret,                     \* what the last turn operation returned
    peticiones,              \* endpoint requests issued in this turn
    tools,                   \* the tools parameter of the last request issued
    invocados,               \* callables invoked in this turn, in order
    \* overlapping event handlers on the tutor shared by the UI
    hilos,                   \* per event listener: where its handler stands, its locals
    \* level and language of the tutors
    tutor,                   \* the tutor object: nivel, idioma, system_prompt
    salida,                  \* message the last configuration call gave back
    \* 6_Configurar_Otras_APIS/conversacion_tres_modelos.py
    gpt_messages,            \* self.gpt_messages
    claude_messages,         \* self.claude_messages
    gemini_messages,         \* self.gemini_messages
    num_turnos,              \* argument of ejecutar_conversacion
    turno,                   \* loop variable of ejecutar_conversacion
    paso,                    \* position inside ejecutar_conversacion
    \* streaming generators (chat_with_model, TutorRoboticaGradio.chat)
    llamada,                 \* arguments of the generator call
    invocadas,               \* streaming functions called, with their arguments
    chunks,                  \* contents of the chunks the open stream has delivered
    response,                \* text accumulated by the generator
    yields,                  \* values yielded so far, in order
    fase                     \* position of the generator

vars == << app, pc, turnos, history, historial, historial_conversacion,
           mensaje, mensajes, finish_reason, tool_calls, idx,
           imagen_resultado, audio_resultado, ret, peticiones, tools, invocados,
           hilos, tutor, salida,
           gpt_messages, claude_messages, gemini_messages, num_turnos, turno, paso,
           llamada, invocadas, chunks, response, yields, fase >>

\* the state of the other programs of the repository, which a chat turn of
\* the orchestrators never touches
varsHilos == << hilos >>
varsConfig == << tutor, salida >>
varsTres == << gpt_messages, claude_messages, gemini_messages, num_turnos, turno, paso >>
varsStream == << llamada, invocadas, chunks, response, yields, fase >>
aux == << varsHilos, varsConfig, varsTres, varsStream >>

----------------------------------------------------------------------------
(* Bounds of the exploration *)

MaxTurnos == 7                 \* turn operations per run
MaxTurnosConHerramientas == 2  \* the endpoint asks for tools only in the first turns
MaxTurnosConFallas == 2        \* the endpoint fails only in the first turns
MaxTurnosEnBlanco == 1         \* the user sends a blank message only in the first turns
MaxTurnosJustos == 1           \* turn operations per run of the fair specification
MaxLlamadas == 2               \* tool-call requests in one endpoint response (one
                               \* fewer in each later turn)

----------------------------------------------------------------------------
(* Values *)

None == "None"                 \* Python None
SinRetorno == "sin_retorno"    \* no turn operation has returned yet
Excepcion == "excepcion"       \* the turn operation raised to its caller

LIMITE_HISTORIAL == 10

Apps == {"aerolinea", "simple", "multimodal", "gradio"}
ConHerramientas == {"aerolinea", "simple", "multimodal"}
Tutores == {"simple", "multimodal"}

MensajesUsuario == {"hola", "arduino"}
MensajesEnBlanco == {" "}      \* not mensaje.strip()
TextosModelo == {"r"}

system_message == "system_message"
system_prompt == "system_prompt"

\* the exceptions a turn can meet
APIError == "APIError"                \* create() fails: network, auth, rate limit
JSONDecodeError == "JSONDecodeError"  \* json.loads on a malformed argument text
KeyError == "KeyError"                \* arguments["clave"] on an absent key
AttributeError == "AttributeError"    \* None.lower()
Errores == {APIError, JSONDecodeError, KeyError, AttributeError}

\* f"Error procesando mensaje: {e}" (simple), f"X Error procesando mensaje: {e}" (multimodal)
error_msg(a, e) ==
    IF a = "multimodal"
    THEN CASE e = APIError -> "X Error procesando mensaje: APIError"
           [] e = JSONDecodeError -> "X Error procesando mensaje: JSONDecodeError"
           [] e = KeyError -> "X Error procesando mensaje: KeyError"
           [] OTHER -> "X Error procesando mensaje: AttributeError"
    ELSE CASE e = APIError -> "Error procesando mensaje: APIError"
           [] e = JSONDecodeError -> "Error procesando mensaje: JSONDecodeError"
           [] e = KeyError -> "Error procesando mensaje: KeyError"
           [] OTHER -> "Error procesando mensaje: AttributeError"

MensajesDeError == { error_msg(a, e) : a \in Tutores, e \in Errores }

\* a str was returned
EsCadena(v) == v \notin {None, SinRetorno, Excepcion}

----------------------------------------------------------------------------
(* Turns *)

Turno(rol, contenido) == [role |-> rol, content |-> contenido]

SystemTurn(a) == Turno("system", IF a = "aerolinea" THEN system_message ELSE system_prompt)

\* json.dumps / json.loads: a JSON text either parses to an object or does not
json_dumps(obj) == [ok |-> TRUE, obj |-> obj]
JsonMalformado == [ok |-> FALSE, obj |-> <<>>]
json_loads_raises(texto) == ~texto.ok
json_loads(texto) == texto.obj

\* mutant: the cut is forgotten
Recortar_mut(h) == h

\* mutant: the cut keeps the oldest entries, h[:10]
Recortar_mut_cabeza(h) == IF Len(h) > LIMITE_HISTORIAL THEN SubSeq(h, 1, LIMITE_HISTORIAL) ELSE h

\* mutant: the cut is off by one, h[-9:]
Recortar_mut_impar(h) == IF Len(h) > LIMITE_HISTORIAL THEN SubSeq(h, Len(h) - LIMITE_HISTORIAL + 2, Len(h)) ELSE h

\* recorte del historial: if len(h) > 10: h = h[-10:]
Recortar(h) == IF Len(h) > LIMITE_HISTORIAL THEN SubSeq(h, Len(h) - LIMITE_HISTORIAL + 1, Len(h)) ELSE h

----------------------------------------------------------------------------
\* the other programs are not running
SinHilos == hilos = << >>
SinConfig == tutor = None /\ salida = None
SinTres ==
    /\ gpt_messages = << >> /\ claude_messages = << >> /\ gemini_messages = << >>
    /\ num_turnos = 0 /\ turno = 0 /\ paso = None
SinStream ==
    /\ llamada = None /\ invocadas = << >> /\ chunks = << >>
    /\ response = "" /\ yields = << >> /\ fase = None

----------------------------------------------------------------------------
Init ==
    /\ app \in Apps
    /\ pc = "idle"
    /\ turnos = 0
    /\ history \in {<< >>, << Turno("user", "hola"), Turno("assistant", "r") >>}
    /\ (app # "aerolinea" => history = << >>)
    /\ historial = << >>
    /\ historial_conversacion = << >>
    /\ mensaje = None
    /\ mensajes = << >>
    /\ finish_reason = None
    /\ tool_calls = << >>
    /\ idx = 0
    /\ imagen_resultado = None
    /\ audio_resultado = None
    /\ ret = SinRetorno
    /\ peticiones = 0
    /\ tools = { }
    /\ invocados = << >>
    /\ SinHilos /\ SinConfig /\ SinTres /\ SinStream

----------------------------------------------------------------------------
(* Tools of the airline assistant *)

\* str.lower() on the city names the endpoint may send
Lower(s) ==
    CASE s = "London" -> "london"
      [] s = "Londres" -> "londres"
      [] s = "Nairobi" -> "nairobi"
      [] OTHER -> s

\* ticket_prices (keys are the Spanish city names, written here without accents)
ticket_prices == [londres |-> "799 EUR", paris |-> "899 EUR", tokyo |-> "1400 EUR", berlin |-> "499 EUR"]

\* get_ticket_price: destination_city.lower() raises on None
get_ticket_price_raises(destination_city) == destination_city = None
\* mutant: a city that is not in the table gives an empty price
get_ticket_price_mut(destination_city) ==
    LET city == Lower(destination_city)
    IN  IF city \in DOMAIN ticket_prices THEN ticket_prices[city] ELSE ""

get_ticket_price(destination_city) ==
    LET city == Lower(destination_city)
    IN  IF city \in DOMAIN ticket_prices THEN ticket_prices[city] ELSE "Unknown"

\* dict.get(key): None when the key is absent
DictGet(d, k) == IF k \in DOMAIN d THEN d[k] ELSE None

\* what the endpoint may put in one tool-call request of the airline assistant
LlamadasAerolinea ==
    << [name |-> "get_ticket_price", arguments |-> json_dumps([destination_city |-> "London"])],
       [name |-> "get_ticket_price", arguments |-> json_dumps([destination_city |-> "Londres"])],
       [name |-> "get_ticket_price", arguments |-> json_dumps([destination_city |-> "Nairobi"])],
       [name |-> "get_ticket_price", arguments |-> json_dumps([otra_clave |-> "x"])],
       [name |-> "get_ticket_price", arguments |-> JsonMalformado],
       [name |-> "reservar_vuelo", arguments |-> json_dumps([destination_city |-> "Londres"])] >>

\* handle_tool_call(message): only message.tool_calls[0] is looked at
handle_tool_call_raises(tcs) ==
    \/ json_loads_raises(tcs[1].arguments)
    \/ get_ticket_price_raises(DictGet(json_loads(tcs[1].arguments), "destination_city"))

handle_tool_call_error(tcs) ==
    IF json_loads_raises(tcs[1].arguments) THEN JSONDecodeError ELSE AttributeError

handle_tool_call(tcs) ==
    LET city == DictGet(json_loads(tcs[1].arguments), "destination_city")
        price == get_ticket_price(city)
    IN  [role |-> "tool",
         content |-> json_dumps([destination_city |-> city, price |-> price]),
         tool_call_id |-> tcs[1].id]

----------------------------------------------------------------------------
(* Tools of the tutors *)

\* what the endpoint may put in one tool-call request of a tutor
LlamadasTutor ==
    << [name |-> "explicar_componente_arduino", arguments |-> json_dumps([componente |-> "led", nivel |-> "primaria"])],
       [name |-> "explicar_componente_arduino", arguments |-> json_dumps([componente |-> "led"])],
       [name |-> "mostrar_codigo_ejemplo", arguments |-> json_dumps([concepto |-> "led_parpadeo", nivel |-> "primaria"])],
       [name |-> "explicar_componente_arduino", arguments |-> JsonMalformado],
       [name |-> "herramienta_desconocida", arguments |-> json_dumps([componente |-> "led", nivel |-> "primaria"])],
       [name |-> "generar_imagen_educativa", arguments |-> json_dumps([tema |-> "robot", nivel |-> "primaria"])] >>

explicar_componente_arduino(a, componente, nivel) ==
    IF a = "multimodal"
    THEN [explicacion |-> << "explicacion", componente, nivel >>, generar_imagen |-> TRUE,
          tema_imagen |-> componente, generar_audio |-> TRUE]
    ELSE [explicacion |-> << "explicacion", componente, nivel >>, generar_audio |-> TRUE]

mostrar_codigo_ejemplo(a, concepto, nivel) ==
    IF a = "multimodal"
    THEN [codigo |-> << "codigo", concepto, nivel >>, explicacion |-> << "ejemplo", concepto, nivel >>,
          generar_imagen |-> TRUE, tema_imagen |-> << "codigo", concepto >>, generar_audio |-> FALSE]
    ELSE [codigo |-> << "codigo", concepto, nivel >>, explicacion |-> << "ejemplo", concepto, nivel >>,
          generar_audio |-> FALSE]

\* the tool names declared to the endpoint (tools / herramientas_educativas);
\* the tutors' manejar_herramienta recognises exactly its own
Registro(a) ==
    CASE a = "multimodal" -> {"explicar_componente_arduino", "mostrar_codigo_ejemplo", "generar_imagen_educativa"}
      [] a = "simple" -> {"explicar_componente_arduino", "mostrar_codigo_ejemplo"}
      [] a = "gradio" -> { }
      [] OTHER -> {"get_ticket_price"}

\* the argument keys a branch of manejar_herramienta indexes with arguments[...]
ClavesIndexadas(nombre) ==
    CASE nombre = "explicar_componente_arduino" -> {"componente", "nivel"}
      [] nombre = "mostrar_codigo_ejemplo" -> {"concepto", "nivel"}
      [] nombre = "generar_imagen_educativa" -> {"tema", "nivel"}
      [] OTHER -> {}

\* manejar_herramienta raises on json.loads or on a KeyError of a recognised branch
manejar_herramienta_raises(a, tc) ==
    \/ json_loads_raises(tc.arguments)
    \/ /\ tc.name \in Registro(a)
       /\ ~(ClavesIndexadas(tc.name) \subseteq DOMAIN json_loads(tc.arguments))

manejar_herramienta_error(tc) ==
    IF json_loads_raises(tc.arguments) THEN JSONDecodeError ELSE KeyError

\* resultado of manejar_herramienta
resultado(a, tc) ==
    LET arguments == json_loads(tc.arguments)
    IN  CASE tc.name \notin Registro(a) -> [error |-> << "Herramienta no reconocida", tc.name >>]
          [] tc.name = "explicar_componente_arduino" ->
                explicar_componente_arduino(a, arguments["componente"], arguments["nivel"])
          [] tc.name = "mostrar_codigo_ejemplo" ->
                mostrar_codigo_ejemplo(a, arguments["concepto"], arguments["nivel"])
          [] OTHER -> [mensaje |-> << "Imagen generada", arguments["tema"] >>]

\* respuesta_herramienta of manejar_herramienta
respuesta_herramienta(a, tc) ==
    [role |-> "tool", content |-> json_dumps(resultado(a, tc)), tool_call_id |-> tc.id]

\* does manejar_herramienta call generar_imagen_educativa / generar_audio_educativo
LlamaImagen(a, tc) ==
    /\ a = "multimodal"
    /\ tc.name \in Registro(a)
    /\ (tc.name = "generar_imagen_educativa" \/ resultado(a, tc).generar_imagen)

LlamaAudio(a, tc) ==
    /\ tc.name \in Registro(a)
    /\ tc.name # "generar_imagen_educativa"
    /\ resultado(a, tc).generar_audio

Invocacion(fn, por) == [fn |-> fn, por |-> por]

\* the callables one manejar_herramienta call invokes, in order
InvocadosPor(a, tc) ==
    (IF tc.name \in Registro(a) /\ tc.name # "generar_imagen_educativa"
        THEN << Invocacion(tc.name, tc.id) >> ELSE << >>)
    \o (IF LlamaImagen(a, tc) THEN << Invocacion("generar_imagen_educativa", tc.id) >> ELSE << >>)
    \o (IF LlamaAudio(a, tc) THEN << Invocacion("generar_audio_educativo", tc.id) >> ELSE << >>)

\* mutant: the automatic image no longer depends on the message
ContienePalabraClave_mut(texto) == TRUE

\* palabras_clave (multimodal) and TEMAS_ROBOTICA (simple), as substring tests
\* on the texts of the model
ContienePalabraClave(texto) == texto = "arduino"
ContieneTema(texto) == texto = "arduino"

----------------------------------------------------------------------------
(* The endpoint *)

\* ids the endpoint gives to the tool-call requests of one response (distinct)
Ids == << "call_b", "call_a", "call_d", "call_c" >>

\* what the endpoint may ask of each orchestrator
LlamadasDe(a) == IF a = "aerolinea" THEN LlamadasAerolinea ELSE LlamadasTutor

\* a tool-call list of n requests, the k-th of the kind f[k]
ListaDeLlamadas(clases, n, f) ==
    [k \in 1..n |-> [id |-> Ids[k], name |-> clases[f[k]].name, arguments |-> clases[f[k]].arguments]]

\* mutant: only the first request is copied into the assistant message
MensajeAsistente_mut(tcs) == [role |-> "assistant", content |-> None, tool_calls |-> << tcs[1] >>]

\* message of a tool_calls response, as it is put in the working list
MensajeAsistente(tcs) == [role |-> "assistant", content |-> None, tool_calls |-> tcs]

----------------------------------------------------------------------------
(* Start of a turn: the working list is built and request #1 is issued *)

NuevoTurno(m) ==
    /\ pc = "idle"
    /\ turnos < MaxTurnos
    /\ turnos' = turnos + 1
    /\ mensaje' = m
    /\ pc' = "req1"
    /\ peticiones' = 1
    /\ tools' = Registro(app)
    /\ finish_reason' = None
    /\ tool_calls' = << >>
    /\ idx' = 0
    /\ imagen_resultado' = None
    /\ audio_resultado' = None
    /\ ret' = SinRetorno
    /\ invocados' = << >>

\* aerolinea: chat(message, history) up to the first create()
chat(m) ==
    /\ app = "aerolinea"
    /\ NuevoTurno(m)
    /\ mensajes' = << SystemTurn(app) >> \o history \o << Turno("user", m) >>
    /\ UNCHANGED << aux, app, history, historial, historial_conversacion >>

\* simple: enviar_mensaje -> procesar_mensaje -> responder up to the first create()
enviar_mensaje(m) ==
    /\ app = "simple"
    /\ NuevoTurno(m)
    /\ historial' = Append(historial, Turno("user", m))
    /\ mensajes' = << SystemTurn(app) >> \o historial_conversacion \o << Turno("user", m) >>
    /\ UNCHANGED << aux, app, history, historial_conversacion >>

\* simple: enviar_mensaje on a blank message returns historial, "", None
enviar_mensaje_en_blanco(m) ==
    /\ app = "simple"
    /\ pc = "idle"
    /\ turnos < MaxTurnos
    /\ turnos < MaxTurnosEnBlanco
    /\ turnos' = turnos + 1
    /\ mensaje' = m
    /\ peticiones' = 0
    /\ UNCHANGED << aux, app, pc, history, historial, historial_conversacion, mensajes, finish_reason,
                    tool_calls, idx, imagen_resultado, audio_resultado, ret, tools, invocados >>

\* multimodal: procesar_mensaje -> responder up to the first create(); the
\* message is not looked at
procesar_mensaje(m) ==
    /\ app = "multimodal"
    /\ (m \in MensajesEnBlanco => turnos < MaxTurnosEnBlanco)
    /\ NuevoTurno(m)
    /\ mensajes' = << SystemTurn(app) >> \o historial_conversacion \o << Turno("user", m) >>
    /\ UNCHANGED << aux, app, history, historial, historial_conversacion >>

----------------------------------------------------------------------------
(* End of a turn *)

\* mutant: the wrapper records the reply and forgets the user turn
HistorialUI_mut(respuesta) == Append(historial, Turno("assistant", respuesta))

\* what the UI wrapper appends to its chat history once responder has returned
HistorialUI(respuesta) ==
    IF app = "simple"
    THEN Append(historial, Turno("assistant", respuesta))
    ELSE historial \o << Turno("user", mensaje), Turno("assistant", respuesta) >>

\* mutant: the user turn has already been put in historial_conversacion when
\* the exception is caught
Lanzar_mut(e) ==
    /\ pc' = "idle"
    /\ IF app = "aerolinea"
       THEN /\ ret' = Excepcion
            /\ UNCHANGED << historial, historial_conversacion, imagen_resultado, audio_resultado >>
       ELSE /\ ret' = error_msg(app, e)
            /\ historial' = HistorialUI(error_msg(app, e))
            /\ historial_conversacion' = Append(historial_conversacion, Turno("user", mensaje))
            /\ imagen_resultado' = None
            /\ audio_resultado' = None
    /\ UNCHANGED << aux, app, turnos, history, mensaje, mensajes, tool_calls, idx, peticiones, tools >>

\* an exception inside the turn: the tutors' responder catches it and returns
\* error_msg, chat lets it reach its caller
Lanzar(e) ==
    /\ pc' = "idle"
    /\ IF app = "aerolinea"
       THEN /\ ret' = Excepcion
            /\ UNCHANGED << historial, imagen_resultado, audio_resultado >>
       ELSE /\ ret' = error_msg(app, e)
            /\ historial' = HistorialUI(error_msg(app, e))
            /\ imagen_resultado' = None
            /\ audio_resultado' = None
    /\ UNCHANGED << aux, app, turnos, history, historial_conversacion, mensaje, mensajes,
                    tool_calls, idx, peticiones, tools >>

\* mutant: the system turn of the working list is kept with the conversation
ActualizarHistorial_mut(h, m, respuesta_texto) ==
    Recortar(<< SystemTurn(app) >> \o h \o << Turno("user", m), Turno("assistant", respuesta_texto) >>)

\* historial_conversacion after the two appends and the cut to the last 10
ActualizarHistorial(h, m, respuesta_texto) ==
    Recortar(h \o << Turno("user", m), Turno("assistant", respuesta_texto) >>)

\* what the end of a turn leaves alone
Marco == << aux, app, turnos, history, mensaje, mensajes, tool_calls, idx, peticiones, tools >>

\* the part of the turn after the last endpoint response: respuesta_texto is
\* its content; aud and img are what the automatic speech / image calls give
Finalizar(respuesta_texto, aud, img) ==
    CASE app = "aerolinea" ->
            /\ pc' = "idle"
            /\ ret' = respuesta_texto
            /\ UNCHANGED << historial, historial_conversacion, imagen_resultado,
                            audio_resultado, invocados >>
            /\ UNCHANGED Marco
      [] app = "simple" ->
            IF audio_resultado = None /\ respuesta_texto = None
            THEN \* respuesta_texto.lower() on None
                 Lanzar(AttributeError) /\ UNCHANGED invocados
            ELSE LET auto == /\ audio_resultado = None
                             /\ (ContieneTema(mensaje) \/ ContieneTema(respuesta_texto))
                 IN  /\ pc' = "idle"
                     /\ ret' = respuesta_texto
                     /\ invocados' = IF auto THEN Append(invocados, Invocacion("generar_audio_educativo", "auto"))
                                             ELSE invocados
                     /\ audio_resultado' = IF auto THEN aud ELSE audio_resultado
                     /\ historial_conversacion' = ActualizarHistorial(historial_conversacion, mensaje, respuesta_texto)
                     /\ historial' = HistorialUI(respuesta_texto)
                     /\ UNCHANGED imagen_resultado
                     /\ UNCHANGED Marco
      [] OTHER ->
            LET autoAudio == audio_resultado = None
                autoImagen == imagen_resultado = None /\ ContienePalabraClave(mensaje)
            IN  /\ pc' = "idle"
                /\ ret' = respuesta_texto
                /\ invocados' = invocados
                      \o (IF autoAudio THEN << Invocacion("generar_audio_educativo", "auto") >> ELSE << >>)
                      \o (IF autoImagen THEN << Invocacion("generar_imagen_educativa", "auto") >> ELSE << >>)
                /\ audio_resultado' = IF autoAudio THEN aud ELSE audio_resultado
                /\ imagen_resultado' = IF autoImagen THEN img ELSE imagen_resultado
                /\ historial_conversacion' = ActualizarHistorial(historial_conversacion, mensaje, respuesta_texto)
                /\ historial' = HistorialUI(respuesta_texto)
                /\ UNCHANGED Marco

----------------------------------------------------------------------------
(* Response to request #1 *)

\* create() raises: network, auth or rate limit
FallaPeticion1 ==
    /\ pc = "req1"
    /\ app \in ConHerramientas
    /\ turnos <= MaxTurnosConFallas
    /\ Lanzar(APIError)
    /\ UNCHANGED << finish_reason, invocados >>

\* finish_reason "stop": the content is the reply
RespuestaStop(texto, aud, img) ==
    /\ pc = "req1"
    /\ app \in ConHerramientas
    /\ finish_reason' = "stop"
    /\ Finalizar(texto, aud, img)

\* finish_reason "tool_calls": the tutors put the assistant message in the
\* working list and start the loop; chat goes on to handle_tool_call
RespuestaToolCalls ==
    /\ pc = "req1"
    /\ app \in ConHerramientas
    /\ turnos <= MaxTurnosConHerramientas
    /\ \E n \in 1..(MaxLlamadas - turnos + 1) :
         \E f \in [1..n -> 1..Len(LlamadasDe(app))] :
            LET tcs == ListaDeLlamadas(LlamadasDe(app), n, f)
            IN  /\ tool_calls' = tcs
                /\ mensajes' = IF app = "aerolinea" THEN mensajes ELSE Append(mensajes, MensajeAsistente(tcs))
    /\ finish_reason' = "tool_calls"
    /\ pc' = "dispatch"
    /\ idx' = 1
    /\ UNCHANGED << aux, app, turnos, history, historial, historial_conversacion, mensaje,
                    imagen_resultado, audio_resultado, ret, peticiones, tools, invocados >>

----------------------------------------------------------------------------
(* Tool dispatch *)

\* aerolinea: handle_tool_call, the two appends and the second create()
DespacharAerolinea ==
    /\ pc = "dispatch"
    /\ app = "aerolinea"
    /\ IF handle_tool_call_raises(tool_calls)
       THEN /\ Lanzar(handle_tool_call_error(tool_calls))
            /\ UNCHANGED finish_reason
            /\ invocados' = IF json_loads_raises(tool_calls[1].arguments) THEN invocados
                            ELSE Append(invocados, Invocacion("get_ticket_price", tool_calls[1].id))
       ELSE /\ invocados' = Append(invocados, Invocacion("get_ticket_price", tool_calls[1].id))
            /\ mensajes' = mensajes \o << MensajeAsistente(tool_calls), handle_tool_call(tool_calls) >>
            /\ pc' = "req2"
            /\ peticiones' = 2
            /\ tools' = { }
            /\ UNCHANGED << aux, app, turnos, history, historial, historial_conversacion, mensaje,
                            finish_reason, tool_calls, idx, imagen_resultado, audio_resultado, ret >>

\* mutant: an image generation that gives nothing is tried once more
DespacharTutor_mut(aud, img) ==
    /\ pc = "dispatch"
    /\ app \in Tutores
    /\ idx <= Len(tool_calls)
    /\ LET tc == tool_calls[idx]
       IN  IF manejar_herramienta_raises(app, tc)
           THEN Lanzar(manejar_herramienta_error(tc)) /\ UNCHANGED << finish_reason, invocados >>
           ELSE /\ invocados' = invocados \o InvocadosPor(app, tc)
                      \o (IF LlamaImagen(app, tc) /\ img = None
                          THEN << Invocacion("generar_imagen_educativa", tc.id) >> ELSE << >>)
                /\ mensajes' = Append(mensajes, respuesta_herramienta(app, tc))
                /\ imagen_resultado' = IF LlamaImagen(app, tc) /\ img # None THEN img ELSE imagen_resultado
                /\ audio_resultado' = IF LlamaAudio(app, tc) /\ aud # None THEN aud ELSE audio_resultado
                /\ idx' = idx + 1
                /\ UNCHANGED << aux, app, pc, turnos, history, historial, historial_conversacion,
                                mensaje, finish_reason, tool_calls, ret, peticiones, tools >>

\* tutors: one pass of "for tool_call in message.tool_calls"
DespacharTutor(aud, img) ==
    /\ pc = "dispatch"
    /\ app \in Tutores
    /\ idx <= Len(tool_calls)
    /\ LET tc == tool_calls[idx]
       IN  IF manejar_herramienta_raises(app, tc)
           THEN Lanzar(manejar_herramienta_error(tc)) /\ UNCHANGED << finish_reason, invocados >>
           ELSE /\ invocados' = invocados \o InvocadosPor(app, tc)
                /\ mensajes' = Append(mensajes, respuesta_herramienta(app, tc))
                /\ imagen_resultado' = IF LlamaImagen(app, tc) /\ img # None THEN img ELSE imagen_resultado
                /\ audio_resultado' = IF LlamaAudio(app, tc) /\ aud # None THEN aud ELSE audio_resultado
                /\ idx' = idx + 1
                /\ UNCHANGED << aux, app, pc, turnos, history, historial, historial_conversacion,
                                mensaje, finish_reason, tool_calls, ret, peticiones, tools >>

\* mutant: after the loop the model is asked again with the tools, as a new
\* first request
SegundaPeticion_mut ==
    /\ pc = "dispatch"
    /\ app \in Tutores
    /\ idx > Len(tool_calls)
    /\ pc' = "req1"
    /\ peticiones' = 2
    /\ UNCHANGED << aux, app, turnos, history, historial, historial_conversacion, mensaje, mensajes,
                    finish_reason, tool_calls, idx, imagen_resultado, audio_resultado, ret,
                    tools, invocados >>

\* tutors: the loop is over, request #2 is issued
SegundaPeticion ==
    /\ pc = "dispatch"
    /\ app \in Tutores
    /\ idx > Len(tool_calls)
    /\ pc' = "req2"
    /\ peticiones' = 2
    /\ tools' = { }
    /\ UNCHANGED << aux, app, turnos, history, historial, historial_conversacion, mensaje, mensajes,
                    finish_reason, tool_calls, idx, imagen_resultado, audio_resultado, ret, invocados >>

----------------------------------------------------------------------------
(* Response to request #2 *)

FallaPeticion2 ==
    /\ pc = "req2"
    /\ turnos <= MaxTurnosConFallas
    /\ Lanzar(APIError)
    /\ UNCHANGED << finish_reason, invocados >>

\* mutant: a second response without text starts another round of dispatch
RespuestaFinal_mut(contenido, aud, img) ==
    /\ pc = "req2"
    /\ IF contenido = None
       THEN /\ pc' = "dispatch"
            /\ idx' = 1
            /\ UNCHANGED << aux, app, turnos, history, historial, historial_conversacion, mensaje,
                            mensajes, tool_calls, imagen_resultado, audio_resultado, ret,
                            peticiones, tools, invocados >>
       ELSE Finalizar(contenido, aud, img)
    /\ UNCHANGED finish_reason

\* the content of the second response is the reply (None when it carries no text)
RespuestaFinal(contenido, aud, img) ==
    /\ pc = "req2"
    /\ Finalizar(contenido, aud, img)
    /\ UNCHANGED finish_reason

----------------------------------------------------------------------------
(* The streaming tutor: generar_respuesta -> TutorRoboticaGradio.chat *)

\* f"X Error al procesar tu pregunta: {str(e)} ..."
error_msg_gradio == "X Error al procesar tu pregunta: APIError"

\* the texts a stream can add up to ("" when no chunk carries content)
TextosStream == TextosModelo \cup {""}

\* openai_history of generar_respuesta: the pairs of the chatbot as user /
\* assistant turns, empty entries left out
RECURSIVE openai_history(_)
openai_history(pares) ==
    IF pares = << >> THEN << >>
    ELSE (IF pares[1][1] # "" THEN << Turno("user", pares[1][1]) >> ELSE << >>)
         \o (IF pares[1][2] # "" THEN << Turno("assistant", pares[1][2]) >> ELSE << >>)
         \o openai_history(Tail(pares))

\* responder_usuario, then generar_respuesta and chat up to create(stream=True)
generar_respuesta(m) ==
    /\ app = "gradio"
    /\ NuevoTurno(m)
    /\ historial' = Append(historial, << m, "" >>)
    /\ mensajes' = << SystemTurn(app) >> \o openai_history(historial) \o << Turno("user", m) >>
    /\ UNCHANGED << aux, app, history, historial_conversacion >>

\* the stream is read to its end: the last text yielded is shown in the pair
RespuestaStream(texto) ==
    /\ pc = "req1"
    /\ app = "gradio"
    /\ pc' = "idle"
    /\ ret' = IF texto = "" THEN ret ELSE texto
    /\ historial' = [historial EXCEPT ![Len(historial)] = << mensaje, texto >>]
    /\ UNCHANGED << historial_conversacion, finish_reason, imagen_resultado, audio_resultado, invocados >>
    /\ UNCHANGED Marco

\* create() or the stream raises: chat yields the error text
FallaStream ==
    /\ pc = "req1"
    /\ app = "gradio"
    /\ turnos <= MaxTurnosConFallas
    /\ pc' = "idle"
    /\ ret' = error_msg_gradio
    /\ historial' = [historial EXCEPT ![Len(historial)] = << mensaje, error_msg_gradio >>]
    /\ UNCHANGED << historial_conversacion, finish_reason, imagen_resultado, audio_resultado, invocados >>
    /\ UNCHANGED Marco

----------------------------------------------------------------------------
ResultadosAudio == {"audio.mp3", None}
ResultadosImagen == {"imagen", None}

Next ==
    \/ \E m \in MensajesUsuario : chat(m)
    \/ \E m \in MensajesUsuario : enviar_mensaje(m)
    \/ \E m \in MensajesEnBlanco : enviar_mensaje_en_blanco(m)
    \/ \E m \in MensajesUsuario \cup MensajesEnBlanco : procesar_mensaje(m)
    \/ FallaPeticion1
    \/ \E t \in TextosModelo, aud \in ResultadosAudio, img \in ResultadosImagen : RespuestaStop(t, aud, img)
    \/ RespuestaToolCalls
    \/ DespacharAerolinea
    \/ \E aud \in ResultadosAudio, img \in ResultadosImagen : DespacharTutor(aud, img)
    \/ SegundaPeticion
    \/ FallaPeticion2
    \/ \E c \in TextosModelo \cup {None}, aud \in ResultadosAudio, img \in ResultadosImagen :
          RespuestaFinal(c, aud, img)
    \/ \E m \in MensajesUsuario : generar_respuesta(m)
    \/ \E t \in TextosStream : RespuestaStream(t)
    \/ FallaStream

Spec == Init /\ [][Next]_vars

\* a step inside a turn: an endpoint call or a tool invocation returns or raises
EnCurso == pc # "idle" /\ Next

\* the runs of at most MaxTurnosJustos turn operations
NextAcotado == Next /\ turnos' <= MaxTurnosJustos

\* every endpoint call and every tool invocation eventually returns or raises
SpecJusta == Init /\ [][NextAcotado]_vars /\ WF_vars(EnCurso)

----------------------------------------------------------------------------
(* Vocabulary of the properties *)

\* s is a suffix of t
EsSufijo(s, t) == Len(s) <= Len(t) /\ s = SubSeq(t, Len(t) - Len(s) + 1, Len(t))

\* post is pre (or what the cut left of it) followed by one user turn and one
\* assistant turn
Agregado(pre, post, m, r) ==
    /\ Len(post) >= 2
    /\ post[Len(post) - 1] = Turno("user", m)
    /\ post[Len(post)] = Turno("assistant", r)
    /\ EsSufijo(SubSeq(post, 1, Len(post) - 2), pre)

EsTurnoTool(t) == t.role = "tool"
TurnosTool(ms) == SelectSeq(ms, EsTurnoTool)

\* the conversation the turn started from
HistorialPrevio == IF app = "aerolinea" THEN history ELSE historial_conversacion

\* the tool-call request the dispatch is about to handle
LlamadaActual == tool_calls[idx]
EnDespacho == pc = "dispatch" /\ idx <= Len(tool_calls)

\* the tool turn answers the request: an error payload under the request's id
EsTurnoDeError(t, id) ==
    /\ t.role = "tool"
    /\ t.tool_call_id = id
    /\ t.content.ok
    /\ "error" \in DOMAIN t.content.obj

\* position of a call id in the response
PosicionDe(id) == CHOOSE k \in 1..Len(tool_calls) : tool_calls[k].id = id

MensajesConPalabraClave == {"arduino"}

----------------------------------------------------------------------------
(* C1: a tutor's turn whose endpoint calls all answered appends exactly one *)
(* user turn and one assistant turn to historial_conversacion, whether the  *)
(* first response was text or tool calls (the claim as stated).             *)
C1_Original ==
    [][ ( /\ app \in Tutores
          /\ pc # "idle" /\ pc' = "idle"
          /\ finish_reason' \in {"stop", "tool_calls"}
          /\ ret' # error_msg(app, APIError) )
        => Agregado(historial_conversacion, historial_conversacion', mensaje, ret') ]_vars

(* C2: when request #2 is issued after a response with N tool calls, the    *)
(* working list holds exactly N tool turns and the k-th carries the id of   *)
(* the k-th request, in every orchestrator (the claim as stated).           *)
C2_Original ==
    pc = "req2" =>
        LET tt == TurnosTool(mensajes)
        IN  /\ Len(tt) = Len(tool_calls)
            /\ \A k \in 1..Len(tt) : tt[k].tool_call_id = tool_calls[k].id

(* C3: when the arguments decode but the tool callable (or the handler's    *)
(* indexing of a missing key) raises, the turn operation does not raise: it *)
(* goes on or returns a str (the claim as stated).                          *)
C3_Original ==
    [][ ( /\ EnDespacho
          /\ ~json_loads_raises(LlamadaActual.arguments)
          /\ IF app = "aerolinea" THEN handle_tool_call_raises(tool_calls)
                                  ELSE manejar_herramienta_raises(app, LlamadaActual)
          /\ pc' = "idle" )
        => EsCadena(ret') ]_vars

(* C4: a tool call whose arguments are not valid JSON gets an error tool    *)
(* turn under its id and the turn goes on to request #2 (the claim as       *)
(* stated).                                                                 *)
C4_Original ==
    [][ ( /\ EnDespacho
          /\ json_loads_raises(LlamadaActual.arguments) )
        => /\ pc' \in {"dispatch", "req2"}
           /\ \E i \in 1..Len(mensajes') : EsTurnoDeError(mensajes'[i], LlamadaActual.id) ]_vars

(* C5: a request for a tool that is not in the registry invokes no callable *)
(* and gets an error tool turn under its id, nothing is raised, in the      *)
(* airline chat as in the tutors (the claim as stated).                     *)
C5_Original ==
    [][ ( /\ EnDespacho
          /\ LlamadaActual.name \notin Registro(app) )
        => /\ invocados' = invocados
           /\ pc' \in {"dispatch", "req2"}
           /\ \E i \in 1..Len(mensajes') : EsTurnoDeError(mensajes'[i], LlamadaActual.id) ]_vars

(* C6: whenever a turn operation of a tutor has returned, successful or     *)
(* failed, historial_conversacion has at most 10 entries.                   *)
C6_HistorialAcotado ==
    (app \in Tutores /\ pc = "idle") => Len(historial_conversacion) <= 10

\* six turns have succeeded: twelve turns were appended and ten are kept
C6_Witness ==
    /\ app \in Tutores /\ pc = "idle"
    /\ Len(historial) = 12
    /\ \A i \in 1..Len(historial) : historial[i].content \notin MensajesDeError
    /\ Len(historial_conversacion) = 10

(* C7: when an endpoint call of a tutor fails, the operation returns an     *)
(* error string and nothing is added to any history, the UI wrapper's chat  *)
(* history included (the claim as stated).                                  *)
FallaEndpoint ==
    /\ app \in Tutores
    /\ pc \in {"req1", "req2"} /\ pc' = "idle"
    /\ ret' = error_msg(app, APIError)

C7_Original ==
    [][ FallaEndpoint =>
          /\ EsCadena(ret')
          /\ historial_conversacion' = historial_conversacion
          /\ historial' = historial ]_vars

(* C7 amended: when an endpoint call of a tutor fails, the operation        *)
(* returns an error string and historial_conversacion is what it was before *)
(* the call; the UI wrapper's chat history receives the user message and    *)
(* the error string as a new user / assistant pair.                         *)
C7_Corregida ==
    [][ FallaEndpoint =>
          /\ EsCadena(ret')
          /\ historial_conversacion' = historial_conversacion
          /\ LET n == Len(historial')
             IN  /\ n >= 2
                 /\ historial'[n - 1] = Turno("user", mensaje)
                 /\ historial'[n] = Turno("assistant", ret')
                 /\ SubSeq(historial', 1, n - 2) =
                      (IF app = "simple" THEN SubSeq(historial, 1, Len(historial) - 1) ELSE historial) ]_vars

\* the second request of a turn failed on a tutor that already has a history
C7_Witness ==
    /\ app \in Tutores /\ pc = "idle"
    /\ peticiones = 2
    /\ ret = error_msg(app, APIError)
    /\ Len(historial_conversacion) = 2
    /\ Len(historial) = 4

(* C8: when the first response has finish reason stop, no tool callable is  *)
(* invoked in the turn, one endpoint request is made and the turns of the   *)
(* exchange are the prior conversation, one user turn and one assistant     *)
(* turn (the claim as stated).                                              *)
C8_Original ==
    [][ (pc = "req1" /\ finish_reason' = "stop") =>
          /\ \A k \in 1..Len(invocados') : invocados'[k].fn \notin Registro(app)
          /\ peticiones' = 1
          /\ (Len(mensajes') - 1) + 1 = Len(HistorialPrevio) + 2 ]_vars

(* C8 amended: when the first response has finish reason stop, no tool is   *)
(* dispatched for a tool-call request, one endpoint request is made and the *)
(* turns of the exchange are the prior conversation, one user turn and one  *)
(* assistant turn; the multimodal tutor still calls its registered tool     *)
(* generar_imagen_educativa itself, once, exactly when the user message     *)
(* contains a keyword.                                                      *)
C8_Corregida ==
    [][ (pc = "req1" /\ finish_reason' = "stop") =>
          /\ \A k \in 1..Len(invocados') : invocados'[k].por = "auto"
          /\ LET reg == SelectSeq(invocados', LAMBDA v : v.fn \in Registro(app))
             IN  IF app = "multimodal" /\ mensaje \in MensajesConPalabraClave
                 THEN reg = << Invocacion("generar_imagen_educativa", "auto") >>
                 ELSE reg = << >>
          /\ peticiones' = 1
          /\ (Len(mensajes') - 1) + 1 = Len(HistorialPrevio) + 2 ]_vars

\* a stop turn of the multimodal tutor in which the image tool was called
C8_Witness ==
    /\ app = "multimodal" /\ pc = "idle"
    /\ finish_reason = "stop"
    /\ mensaje = "arduino"
    /\ \E k \in 1..Len(invocados) : invocados[k] = Invocacion("generar_imagen_educativa", "auto")

(* C9: in the list sent with request #2 the assistant tool-call message,    *)
(* carrying all the requests, comes right after the user turn and before    *)
(* every tool turn, and the tool turns follow the order of the requests.    *)
C9_OrdenDeTurnos ==
    pc = "req2" =>
        LET tt == TurnosTool(mensajes)
            u == Len(mensajes) - Len(tt) - 1
        IN  /\ u >= 2
            /\ mensajes[u] = Turno("user", mensaje)
            /\ mensajes[u + 1].role = "assistant"
            /\ "tool_calls" \in DOMAIN mensajes[u + 1]
            /\ mensajes[u + 1].tool_calls = tool_calls
            /\ \A i \in 1..Len(mensajes) : (mensajes[i].role = "tool") <=> (i > u + 1)
            /\ \A i \in 1..Len(tt) : \E k \in 1..Len(tool_calls) : tool_calls[k].id = tt[i].tool_call_id
            /\ \A i, j \in 1..Len(tt) :
                  i < j => PosicionDe(tt[i].tool_call_id) < PosicionDe(tt[j].tool_call_id)

\* request #2 of the multimodal tutor after two tool calls
C9_Witness ==
    /\ app = "multimodal" /\ pc = "req2"
    /\ Len(tool_calls) = 2
    /\ Len(TurnosTool(mensajes)) = 2

(* C10: when request #2 is sent, every call id of the assistant tool-call   *)
(* message has its tool turn in the list (the claim as stated).             *)
C10_Original ==
    pc = "req2" =>
        \A k \in 1..Len(tool_calls) :
            \E i \in 1..Len(mensajes) :
                /\ mensajes[i].role = "tool"
                /\ mensajes[i].tool_call_id = tool_calls[k].id

(* C11: within one turn there are at most two endpoint requests and at     *)
(* most one entry into tool dispatch: request #1 opens the turn and carries *)
(* the tool schemas, dispatch is entered only from the response to request  *)
(* #1, request #2 is issued only out of dispatch after a tool_calls         *)
(* response, and whatever answers request #2 ends the turn.                 *)
C11_UnaSolaRonda ==
    [][ /\ peticiones' <= 2
        /\ (pc' = "req1" =>
               /\ pc = "idle" /\ turnos' = turnos + 1
               /\ peticiones' = 1
               /\ tools' = Registro(app)
               /\ (app \in ConHerramientas => tools' # { }))
        /\ ((pc' = "dispatch" /\ pc # "dispatch") => (pc = "req1" /\ peticiones = 1))
        /\ (peticiones' # peticiones /\ peticiones' = 2 =>
               /\ pc = "dispatch" /\ pc' = "req2"
               /\ finish_reason = "tool_calls"
               /\ peticiones = 1)
        /\ (pc = "req2" => (pc' = "idle" /\ peticiones' = 2)) ]_vars

\* a turn with two requests has returned and its second response carried no text
C11_Witness ==
    /\ pc = "idle"
    /\ peticiones = 2
    /\ finish_reason = "tool_calls"
    /\ Len(tool_calls) = 2
    /\ ret = None

(* C12: when the endpoint has answered request #2, the turn operation      *)
(* returns a str, also when that response carries no text, and no assistant *)
(* turn without content is stored in the history (the claim as stated).     *)
C12_Original ==
    [][ ( /\ pc = "req2" /\ pc' = "idle"
          /\ ret' # Excepcion
          /\ ret' # error_msg(app, APIError) )
        => /\ EsCadena(ret')
           /\ \A i \in 1..Len(historial_conversacion') :
                 historial_conversacion'[i].content # None ]_vars

(* C13: once the first response has asked for tools, the turn ends only    *)
(* out of request #2, by its reply or by its failure: a tool that raises,   *)
(* an unknown tool name or undecodable arguments do not end the turn in     *)
(* dispatch (the claim as stated).                                          *)
C13_Original ==
    [][ ( /\ finish_reason = "tool_calls"
          /\ pc # "idle" /\ pc' = "idle" )
        => pc = "req2" ]_vars

(* C14: every message list sent to the endpoint, by request #1 or #2 of    *)
(* any script and after any number of turns and cuts of the history, holds  *)
(* exactly one system turn and that turn is its first element.              *)
C14_UnSoloSystem ==
    pc \in {"req1", "req2"} =>
        /\ Len(mensajes) >= 2
        /\ mensajes[1] = SystemTurn(app)
        /\ \A i \in 2..Len(mensajes) : mensajes[i].role # "system"

\* request #1 of a tutor whose history has been cut to its last ten turns
C14_Witness ==
    /\ app \in Tutores
    /\ pc = "req1"
    /\ turnos = 7
    /\ Len(historial_conversacion) = LIMITE_HISTORIAL
    /\ Len(historial) >= LIMITE_HISTORIAL + 2
    /\ Len(mensajes) = LIMITE_HISTORIAL + 2

(* C15: the history a tutor keeps holds only user turns and assistant      *)
(* turns that carry text, never a system turn, a tool turn or an assistant  *)
(* tool-call message, and the history list given to the airline chat is     *)
(* left as it was (the claim as stated).                                    *)
EsTurnoPersistible(t) ==
    /\ DOMAIN t = {"role", "content"}
    /\ t.role \in {"user", "assistant"}
    /\ t.content # None

C15_Original ==
    [][ /\ (app \in Tutores =>
               \A i \in 1..Len(historial_conversacion') :
                  EsTurnoPersistible(historial_conversacion'[i]))
        /\ (app = "aerolinea" => history' = history) ]_vars

(* C16: a blank user message starts no turn: no endpoint request is made   *)
(* and neither the UI chat history nor the tutor's history changes, in the  *)
(* simple tutor as in the multimodal one (the claim as stated).             *)
C16_Original ==
    [][ ( /\ app \in Tutores
          /\ pc = "idle"
          /\ turnos' = turnos + 1
          /\ mensaje' \in MensajesEnBlanco )
        => /\ pc' = "idle"
           /\ peticiones' = 0
           /\ historial' = historial
           /\ historial_conversacion' = historial_conversacion ]_vars

\* the first tool-call request of the airline response asks the price of city c
PideCiudad(c) ==
    /\ app = "aerolinea"
    /\ Len(tool_calls) >= 1
    /\ tool_calls[1].name = "get_ticket_price"
    /\ tool_calls[1].arguments = json_dumps([destination_city |-> c])

\* the tool turn that chat puts at the end of the list of request #2
TurnoToolAerolinea == mensajes[Len(mensajes)]

\* a content that is the bare text v, with no JSON object around it
TextoLiteral(v) == [literal |-> v]

(* C17: when the first response of the airline chat asks get_ticket_price   *)
(* for "London", the tool turn sent with request #2 carries the price       *)
(* "799 EUR" (the claim as stated).                                         *)
C17_Original ==
    (pc = "req2" /\ PideCiudad("London")) =>
        /\ TurnoToolAerolinea.role = "tool"
        /\ json_loads(TurnoToolAerolinea.content).price = "799 EUR"

(* C18: for "Nairobi", which is not in the price table, the content of the  *)
(* tool turn sent with request #2 is the bare text "Unknown" (the claim as  *)
(* stated).                                                                 *)
C18_Original ==
    (pc = "req2" /\ PideCiudad("Nairobi")) =>
        /\ ~get_ticket_price_raises("Nairobi")
        /\ get_ticket_price("Nairobi") = "Unknown"
        /\ TurnoToolAerolinea.content = TextoLiteral("Unknown")

(* C18 amended: for "Nairobi", which is not in the price table,             *)
(* get_ticket_price returns "Unknown" without raising, and the content of   *)
(* the tool turn sent with request #2 is the JSON text of the object        *)
(* {destination_city: "Nairobi", price: "Unknown"}, under the id of the     *)
(* request.                                                                 *)
C18_Corregida ==
    (pc = "req2" /\ PideCiudad("Nairobi")) =>
        /\ ~get_ticket_price_raises("Nairobi")
        /\ get_ticket_price("Nairobi") = "Unknown"
        /\ TurnoToolAerolinea =
              [role |-> "tool",
               content |-> json_dumps([destination_city |-> "Nairobi", price |-> "Unknown"]),
               tool_call_id |-> tool_calls[1].id]

\* request #2 of the airline chat after a price request for Nairobi, with a
\* prior conversation
C18_Witness ==
    /\ pc = "req2"
    /\ PideCiudad("Nairobi")
    /\ Len(history) = 2
    /\ Len(mensajes) = 6

\* the invocations of the turn that manejar_herramienta made for the request id
InvocadosPara(id) == SelectSeq(invocados, LAMBDA v : v.por = id)

Fallo(r) == r = Excepcion \/ r \in MensajesDeError \/ r = error_msg_gradio

(* C20: every turn that has started ends, by a reply or by a failure, when  *)
(* every endpoint call and tool invocation returns or raises; a turn goes   *)
(* idle -> req1 -> idle or idle -> req1 -> dispatch -> req2 -> idle, and it *)
(* leaves dispatch for idle only by failing.                                *)
C20_TodoTurnoTermina ==
    /\ (pc # "idle") ~> (pc = "idle")
    /\ [][ /\ (pc' # pc =>
                  << pc, pc' >> \in { << "idle", "req1" >>, << "req1", "idle" >>,
                                     << "req1", "dispatch" >>, << "dispatch", "req2" >>,
                                     << "req2", "idle" >>, << "dispatch", "idle" >> })
           /\ ((pc = "dispatch" /\ pc' = "dispatch") => idx' = idx + 1)
           /\ ((pc = "dispatch" /\ pc' = "idle") => Fallo(ret'))
           /\ ((pc # "idle" /\ pc' = "idle") => (ret' # SinRetorno \/ app = "gradio")) ]_vars

\* a turn has gone through dispatch and request #2 and has returned the reply
C20_Witness ==
    /\ pc = "idle"
    /\ turnos = 1
    /\ peticiones = 2
    /\ idx = Len(tool_calls) + 1
    /\ ret \in TextosModelo

----------------------------------------------------------------------------
(* Claims C21 - C30 *)

\* a turn of a tutor has returned what the endpoint answered (no error text)
TurnoLogrado ==
    /\ app \in Tutores
    /\ pc # "idle" /\ pc' = "idle"
    /\ ret' \notin MensajesDeError

\* the last n entries of h, all of h when it is shorter
Ultimos(h, n) == IF Len(h) > n THEN SubSeq(h, Len(h) - n + 1, Len(h)) ELSE h

(* C22: when the history exceeds the cap after a turn, the cut drops        *)
(* entries only from the oldest end: what is kept is exactly the last 10    *)
(* entries of the history before the cut, in their order, so the user turn  *)
(* and the reply of the turn just completed are always kept.                *)
C22_RecorteDelFinal ==
    [][ TurnoLogrado =>
          LET previo == historial_conversacion \o
                          << Turno("user", mensaje), Turno("assistant", ret') >>
              n == Len(previo)
          IN  /\ n <= 10 => historial_conversacion' = previo
              /\ n > 10 =>
                   /\ Len(historial_conversacion') = 10
                   /\ \A i \in 1..10 : historial_conversacion'[i] = previo[n - 10 + i]
                   /\ historial_conversacion'[9] = Turno("user", mensaje)
                   /\ historial_conversacion'[10] = Turno("assistant", ret') ]_vars

\* the seventh turn in a row has been cut: the kept history starts with the
\* user turn of the third turn and ends with the pair of the seventh
C22_Witness ==
    /\ app = "multimodal" /\ pc = "idle"
    /\ turnos = 7 /\ mensaje = "arduino"
    /\ Len(historial) = 14
    /\ Len(historial_conversacion) = 10
    /\ historial_conversacion[1] = Turno("user", "hola")
    /\ historial_conversacion[9] = Turno("user", "arduino")
    /\ historial_conversacion[10] = Turno("assistant", ret)

(* C28: after any sequence of responder calls from an empty history, the    *)
(* tutor's history has even length and alternates user, assistant, user,    *)
(* assistant, ... starting with a user turn; the cut to the last 10 entries *)
(* never splits a user / assistant pair.                                    *)
C28_ParesAlternados ==
    app \in Tutores =>
      /\ Len(historial_conversacion) % 2 = 0
      /\ \A i \in 1..Len(historial_conversacion) :
            historial_conversacion[i].role = IF i % 2 = 1 THEN "user" ELSE "assistant"

\* the simple tutor after a cut: five whole pairs are kept
C28_Witness ==
    /\ app = "simple" /\ pc = "idle"
    /\ turnos >= 6
    /\ ret \notin MensajesDeError
    /\ Len(historial_conversacion) = 10
    /\ historial_conversacion[1].role = "user"
    /\ historial_conversacion[10] = Turno("assistant", ret)

\* the UI chat history without the exchanges that ended in an error text
RECURSIVE SinFallidos(_)
SinFallidos(h) ==
    IF Len(h) < 2 THEN h
    ELSE IF h[2].content \in MensajesDeError
         THEN SinFallidos(SubSeq(h, 3, Len(h)))
         ELSE << h[1], h[2] >> \o SinFallidos(SubSeq(h, 3, Len(h)))

----------------------------------------------------------------------------
(* C21: overlapping event handlers on the tutor shared by the UI.           *)
(* The tutor interfaces wire the same handler to two listeners              *)
(* (enviar_btn.click and mensaje_input.submit) and every handler works on   *)
(* the one tutor object; the source takes no lock and sets no queue or      *)
(* concurrency limit, so nothing in it keeps a second handler from entering *)
(* responder while the first one waits for the endpoint. A handler is cut   *)
(* at its reads and writes of self.historial_conversacion.                  *)

MaxEventos == 2   \* handler invocations

Oyentes == {"click", "submit"}

\* the conversation so far: five earlier turns, as kept by the tutor
CincoTurnos ==
    [i \in 1..LIMITE_HISTORIAL |-> IF i % 2 = 1 THEN Turno("user", "hola") ELSE Turno("assistant", "r")]

HiloEnReposo == [pc |-> "idle", mensaje |-> None, respuesta |-> None, corte |-> << >>]

InitConcurrente ==
    /\ app \in Tutores
    /\ pc = "idle" /\ turnos = 0 /\ history = << >> /\ historial = << >>
    /\ historial_conversacion \in {<< >>, CincoTurnos}
    /\ mensaje = None /\ mensajes = << >> /\ finish_reason = None /\ tool_calls = << >>
    /\ idx = 0 /\ imagen_resultado = None /\ audio_resultado = None /\ ret = SinRetorno
    /\ peticiones = 0 /\ tools = { } /\ invocados = << >>
    /\ hilos = [h \in Oyentes |-> HiloEnReposo]
    /\ SinConfig /\ SinTres /\ SinStream

\* what a handler step leaves alone, but for turnos and historial_conversacion
RestoConcurrente ==
    << app, pc, history, historial, mensaje, mensajes, finish_reason, tool_calls, idx,
       imagen_resultado, audio_resultado, ret, peticiones, tools, invocados,
       varsConfig, varsTres, varsStream >>

\* the listener's handler enters responder: the working list is built from
\* the history and request #1 is issued
EntrarResponder(h, m) ==
    /\ hilos[h].pc = "idle"
    /\ turnos < MaxEventos
    /\ turnos' = turnos + 1
    /\ hilos' = [hilos EXCEPT ![h] = [pc |-> "create", mensaje |-> m, respuesta |-> None, corte |-> << >>]]
    /\ UNCHANGED << historial_conversacion, RestoConcurrente >>

\* the endpoint answers with a text
RecibirRespuesta(h, texto) ==
    /\ hilos[h].pc = "create"
    /\ hilos' = [hilos EXCEPT ![h].pc = "append", ![h].respuesta = texto]
    /\ UNCHANGED << turnos, historial_conversacion, RestoConcurrente >>

\* the endpoint call raises: responder returns the error text
FallarPeticion(h) ==
    /\ hilos[h].pc = "create"
    /\ hilos' = [hilos EXCEPT ![h].pc = "idle"]
    /\ UNCHANGED << turnos, historial_conversacion, RestoConcurrente >>

\* multimodal: historial_conversacion.append(user turn);
\* simple: historial_conversacion.extend([user turn, assistant turn])
AgregarUsuario(h) ==
    /\ hilos[h].pc = "append"
    /\ IF app = "simple"
       THEN /\ historial_conversacion' = historial_conversacion \o
                   << Turno("user", hilos[h].mensaje), Turno("assistant", hilos[h].respuesta) >>
            /\ hilos' = [hilos EXCEPT ![h].pc = "len"]
       ELSE /\ historial_conversacion' = Append(historial_conversacion, Turno("user", hilos[h].mensaje))
            /\ hilos' = [hilos EXCEPT ![h].pc = "append2"]
    /\ UNCHANGED << turnos, RestoConcurrente >>

\* multimodal: historial_conversacion.append(assistant turn)
AgregarAsistente(h) ==
    /\ hilos[h].pc = "append2"
    /\ historial_conversacion' = Append(historial_conversacion, Turno("assistant", hilos[h].respuesta))
    /\ hilos' = [hilos EXCEPT ![h].pc = "len"]
    /\ UNCHANGED << turnos, RestoConcurrente >>

\* if len(self.historial_conversacion) > 10:
MedirHistorial(h) ==
    /\ hilos[h].pc = "len"
    /\ hilos' = [hilos EXCEPT ![h].pc = IF Len(historial_conversacion) > LIMITE_HISTORIAL
                                        THEN "slice" ELSE "idle"]
    /\ UNCHANGED << turnos, historial_conversacion, RestoConcurrente >>

\* the right-hand side self.historial_conversacion[-10:] is evaluated
LeerCorte(h) ==
    /\ hilos[h].pc = "slice"
    /\ hilos' = [hilos EXCEPT ![h].pc = "assign", ![h].corte = Recortar(historial_conversacion)]
    /\ UNCHANGED << turnos, historial_conversacion, RestoConcurrente >>

\* self.historial_conversacion = <the slice read before>
AsignarCorte(h) ==
    /\ hilos[h].pc = "assign"
    /\ historial_conversacion' = hilos[h].corte
    /\ hilos' = [hilos EXCEPT ![h].pc = "idle"]
    /\ UNCHANGED << turnos, RestoConcurrente >>

NextConcurrente ==
    \/ \E h \in Oyentes : \E m \in MensajesUsuario : EntrarResponder(h, m)
    \/ \E h \in Oyentes : \E texto \in TextosModelo : RecibirRespuesta(h, texto)
    \/ \E h \in Oyentes : FallarPeticion(h)
    \/ \E h \in Oyentes : AgregarUsuario(h)
    \/ \E h \in Oyentes : AgregarAsistente(h)
    \/ \E h \in Oyentes : MedirHistorial(h)
    \/ \E h \in Oyentes : LeerCorte(h)
    \/ \E h \in Oyentes : AsignarCorte(h)

SpecConcurrente == InitConcurrente /\ [][NextConcurrente]_vars

\* the handlers that are inside responder
EnVuelo == {h \in Oyentes : hilos[h].pc # "idle"}

\* two responder calls never overlap
NoSolapan == Cardinality(EnVuelo) <= 1

\* the appends of two turns never interleave: no two user turns and no two
\* assistant turns are neighbours
SinIntercalar ==
    \A i \in 1..(Len(historial_conversacion) - 1) :
        historial_conversacion[i].role # historial_conversacion[i + 1].role

\* the pair of a handler that has returned a reply is in the history (with
\* MaxEventos invocations no cut can have dropped it as an old entry)
SinParPerdido ==
    \A h \in Oyentes :
        (hilos[h].pc = "idle" /\ hilos[h].respuesta # None) =>
            \E i \in 1..(Len(historial_conversacion) - 1) :
                /\ historial_conversacion[i] = Turno("user", hilos[h].mensaje)
                /\ historial_conversacion[i + 1] = Turno("assistant", hilos[h].respuesta)

(* C21: a single conversation is advanced by at most one in-flight turn     *)
(* operation at a time: on the tutor shared by the UI event handlers two    *)
(* responder calls never overlap, so the history appends of two turns never *)
(* interleave and no appended pair is lost by the read-then-reassign cut.   *)
C21_Original == NoSolapan /\ SinIntercalar /\ SinParPerdido

----------------------------------------------------------------------------
(* Level and language of the tutors: the configuration calls and the        *)
(* system prompt they leave, up to the system message of the request a turn *)
(* issues. What follows the request inside a turn is in Spec, where the     *)
(* system message is SystemTurn(app) whatever its text. Here app also       *)
(* takes the value "consola": 5_laboratorio_final_semana_1/tutor_robotica/  *)
(* tutor_robotica.py (TutorRobotica). The tutor's fields are written nivel  *)
(* and idioma for the four classes (nivel_actual, language in the source of *)
(* the streaming and console tutors).                                       *)

MaxTurnosConfig == 2   \* messages sent through the UI

AppsConfig == {"simple", "multimodal", "gradio", "consola"}

NIVELES_EDUCATIVOS ==
    [preescolar   |-> [edad |-> "3-6", descripcion |-> "muy basicos", vocabulario |-> "simple", ejemplos |-> "cotidianos"],
     primaria     |-> [edad |-> "6-12", descripcion |-> "basicos", vocabulario |-> "basico", ejemplos |-> "practicos"],
     secundaria   |-> [edad |-> "12-15", descripcion |-> "intermedios", vocabulario |-> "tecnico basico", ejemplos |-> "proyectos"],
     preparatoria |-> [edad |-> "15-18", descripcion |-> "avanzados", vocabulario |-> "tecnico avanzado", ejemplos |-> "profesionales"]]

Niveles == DOMAIN NIVELES_EDUCATIVOS
NivelesPedidos == Niveles \cup {"universidad"}
IDIOMAS_DISPONIBLES == {"Espanol", "English"}

\* str.upper() on the level names
upper(nivel) ==
    CASE nivel = "preescolar" -> "PREESCOLAR"
      [] nivel = "primaria" -> "PRIMARIA"
      [] nivel = "secundaria" -> "SECUNDARIA"
      [] nivel = "preparatoria" -> "PREPARATORIA"

\* the f-string of __init__ and actualizar_configuracion (the same text in
\* both), shortened to the parts that name the level, its table entries and
\* the language; the two tutors differ in the tools paragraph
PromptTutor(a, nivel, idioma) ==
    "estudiantes de nivel " \o nivel \o " (" \o NIVELES_EDUCATIVOS[nivel].edad \o "). "
    \o "EXCLUSIVAMENTE en " \o idioma \o ". responde en " \o idioma \o ". "
    \o "lenguaje al nivel " \o nivel \o ". "
    \o "vocabulario " \o NIVELES_EDUCATIVOS[nivel].vocabulario \o ". "
    \o "ejemplos " \o NIVELES_EDUCATIVOS[nivel].ejemplos \o ". "
    \o "SIEMPRE en " \o idioma \o ". "
    \o (IF a = "multimodal" THEN "HERRAMIENTAS: imagenes, codigo, componentes. "
                            ELSE "HERRAMIENTAS: codigo, componentes. ")
    \o "EXCLUSIVAMENTE EN " \o idioma

\* the file prompts/<nivel>.txt is not there: the fallback text
cargar_prompt_desde_archivo(nivel) == "No hay ejemplos disponibles para este nivel."

get_system_prompt_multishot(a, nivel, language) ==
    "NIVEL ACTUAL: " \o upper(nivel) \o " (" \o NIVELES_EDUCATIVOS[nivel].edad \o "). "
    \o NIVELES_EDUCATIVOS[nivel].descripcion \o ". "
    \o "Vocabulario: " \o NIVELES_EDUCATIVOS[nivel].vocabulario \o ". "
    \o "Tipo de ejemplos: " \o NIVELES_EDUCATIVOS[nivel].ejemplos \o ". "
    \o (IF a = "gradio" THEN "7. tono amigable. 8. admitelo. " ELSE "")
    \o "EJEMPLOS PARA NIVEL " \o upper(nivel) \o ": "
    \o cargar_prompt_desde_archivo(nivel)
    \o " TODAS las respuestas deben generarse en " \o language

\* str.replace(viejo, nuevo) for a non-empty viejo: every occurrence, from
\* the left, without overlap
RECURSIVE replace(_, _, _)
replace(texto, viejo, nuevo) ==
    LET n == Len(viejo)
        donde == {i \in 1..(Len(texto) - n + 1) : SubSeq(texto, i, i + n - 1) = viejo}
    IN  IF donde = { } THEN texto
        ELSE LET i == CHOOSE k \in donde : \A j \in donde : k <= j
             IN  SubSeq(texto, 1, i - 1) \o nuevo
                   \o replace(SubSeq(texto, i + n, Len(texto)), viejo, nuevo)

\* __init__ of the four classes with the defaults the programs use
Construir(a, nivel, idioma) ==
    [nivel |-> nivel, idioma |-> idioma,
     system_prompt |-> IF a \in Tutores THEN PromptTutor(a, nivel, idioma)
                       ELSE get_system_prompt_multishot(a, nivel, idioma)]

Llamada(op, arg, msg) == [op |-> op, arg |-> arg, msg |-> msg]

InitConfig ==
    /\ app \in AppsConfig
    /\ pc = "idle" /\ turnos = 0 /\ history = << >> /\ historial = << >>
    /\ historial_conversacion = << >>
    /\ mensaje = None /\ mensajes = << >> /\ finish_reason = None /\ tool_calls = << >>
    /\ idx = 0 /\ imagen_resultado = None /\ audio_resultado = None /\ ret = SinRetorno
    /\ peticiones = 0 /\ tools = { } /\ invocados = << >>
    /\ tutor = Construir(app, "primaria", "Espanol")
    /\ salida = Llamada("__init__", None, None)
    /\ SinHilos /\ SinTres /\ SinStream

\* what a configuration call leaves alone, but for tutor, salida and the
\* variables of the turn it may start
RestoConfig ==
    << app, history, historial, finish_reason, tool_calls, idx, imagen_resultado,
       audio_resultado, ret, tools, invocados, varsHilos, varsTres, varsStream >>

\* mutant: the system prompt is not regenerated
actualizar_configuracion_mut(t, nivel, idioma) ==
    [t EXCEPT !.nivel = IF nivel # None /\ nivel # t.nivel THEN nivel ELSE t.nivel,
              !.idioma = IF idioma # None /\ idioma # t.idioma THEN idioma ELSE t.idioma]

\* simple: TutorRoboticaSimple.actualizar_configuracion(nivel, idioma)
actualizar_configuracion(t, nivel, idioma) ==
    LET n == IF nivel # None /\ nivel # t.nivel THEN nivel ELSE t.nivel
        l == IF idioma # None /\ idioma # t.idioma THEN idioma ELSE t.idioma
    IN  [nivel |-> n, idioma |-> l, system_prompt |-> PromptTutor("simple", n, l)]

\* multimodal: the first lines of procesar_mensaje; nivel and idioma are
\* assigned before the two replace calls read them
AplicarSelectores(t, nivel, idioma) ==
    IF nivel # t.nivel \/ idioma # t.idioma
    THEN LET t1 == [t EXCEPT !.nivel = nivel, !.idioma = idioma]
         IN  [t1 EXCEPT !.system_prompt =
                 replace(replace(t1.system_prompt, "nivel " \o t1.nivel, "nivel " \o nivel),
                         "en " \o t1.idioma, "en " \o idioma)]
    ELSE t

\* simple: the "Inicializar Tutor" button makes a new tutor
inicializar_tutor(nivel, idioma) ==
    /\ app = "simple"
    /\ pc = "idle"
    /\ tutor' = Construir(app, nivel, idioma)
    /\ historial_conversacion' = << >>
    /\ salida' = Llamada("inicializar_tutor", << nivel, idioma >>, "inicializado")
    /\ UNCHANGED << pc, turnos, mensaje, mensajes, peticiones, RestoConfig >>

\* simple: a direct call of actualizar_configuracion; an argument can be None
LlamarActualizarConfiguracion(nivel, idioma) ==
    /\ app = "simple"
    /\ pc = "idle"
    /\ tutor' = actualizar_configuracion(tutor, nivel, idioma)
    /\ salida' = Llamada("actualizar_configuracion", << nivel, idioma >>, None)
    /\ UNCHANGED << pc, turnos, historial_conversacion, mensaje, mensajes, peticiones, RestoConfig >>

\* simple and multimodal: procesar_mensaje with the values of the two
\* selectors, up to the request that responder issues
procesar_mensaje_config(m, nivel, idioma) ==
    /\ app \in Tutores
    /\ pc = "idle"
    /\ turnos < MaxTurnosConfig
    /\ turnos' = turnos + 1
    /\ tutor' = IF app = "simple" THEN actualizar_configuracion(tutor, nivel, idioma)
                                  ELSE AplicarSelectores(tutor, nivel, idioma)
    /\ salida' = Llamada("procesar_mensaje", << nivel, idioma >>, None)
    /\ mensaje' = m
    /\ mensajes' = << Turno("system", tutor'.system_prompt) >> \o historial_conversacion
                      \o << Turno("user", m) >>
    /\ peticiones' = 1
    /\ pc' = "req1"
    /\ UNCHANGED << historial_conversacion, RestoConfig >>

\* the turn returns: with a reply, which is kept with the user turn, or with
\* an error text, which is not
TerminarTurnoConfig(logrado) ==
    /\ app \in Tutores
    /\ pc = "req1"
    /\ pc' = "idle"
    /\ historial_conversacion' = IF logrado THEN ActualizarHistorial(historial_conversacion, mensaje, "r")
                                            ELSE historial_conversacion
    /\ UNCHANGED << turnos, tutor, salida, mensaje, mensajes, peticiones, RestoConfig >>

\* mutant: the level is assigned before it is validated
cambiar_nivel_mut(nuevo_nivel) ==
    /\ app \in {"gradio", "consola"}
    /\ tutor' = IF nuevo_nivel \in Niveles
                THEN [tutor EXCEPT !.nivel = nuevo_nivel,
                                   !.system_prompt = get_system_prompt_multishot(app, nuevo_nivel, tutor.idioma)]
                ELSE [tutor EXCEPT !.nivel = nuevo_nivel]
    /\ salida' = Llamada("cambiar_nivel", nuevo_nivel,
                         IF nuevo_nivel \in Niveles THEN "actualizado" ELSE "Nivel no valido")
    /\ UNCHANGED << pc, turnos, historial_conversacion, mensaje, mensajes, peticiones, RestoConfig >>

\* streaming and console tutors: cambiar_nivel(nuevo_nivel); the message is
\* returned (streaming) or printed (console)
cambiar_nivel(nuevo_nivel) ==
    /\ app \in {"gradio", "consola"}
    /\ IF nuevo_nivel \notin Niveles
       THEN /\ salida' = Llamada("cambiar_nivel", nuevo_nivel, "Nivel no valido")
            /\ UNCHANGED tutor
       ELSE /\ tutor' = [tutor EXCEPT !.nivel = nuevo_nivel,
                                      !.system_prompt = get_system_prompt_multishot(app, nuevo_nivel, tutor.idioma)]
            /\ salida' = Llamada("cambiar_nivel", nuevo_nivel, "actualizado")
    /\ UNCHANGED << pc, turnos, historial_conversacion, mensaje, mensajes, peticiones, RestoConfig >>

\* streaming and console tutors: cambiar_idioma(nuevo_idioma), any text
cambiar_idioma(nuevo_idioma) ==
    /\ app \in {"gradio", "consola"}
    /\ tutor' = [tutor EXCEPT !.idioma = nuevo_idioma,
                              !.system_prompt = get_system_prompt_multishot(app, tutor.nivel, nuevo_idioma)]
    /\ salida' = Llamada("cambiar_idioma", nuevo_idioma, "cambiado")
    /\ UNCHANGED << pc, turnos, historial_conversacion, mensaje, mensajes, peticiones, RestoConfig >>

NextConfig ==
    \/ \E n \in Niveles : \E l \in IDIOMAS_DISPONIBLES : inicializar_tutor(n, l)
    \/ \E n \in Niveles \cup {None} : \E l \in IDIOMAS_DISPONIBLES \cup {None} :
          LlamarActualizarConfiguracion(n, l)
    \/ \E m \in MensajesUsuario : \E n \in Niveles : \E l \in IDIOMAS_DISPONIBLES :
          procesar_mensaje_config(m, n, l)
    \/ \E logrado \in BOOLEAN : TerminarTurnoConfig(logrado)
    \/ \E n \in NivelesPedidos : cambiar_nivel(n)
    \/ \E l \in IDIOMAS_DISPONIBLES \cup {"Klingon"} : cambiar_idioma(l)

SpecConfig == InitConfig /\ [][NextConfig]_vars

\* sub occurs in texto
Contiene(texto, sub) ==
    \E i \in 1..(Len(texto) - Len(sub) + 1) : SubSeq(texto, i, i + Len(sub) - 1) = sub

(* C23: in the multimodal tutor UI, when procesar_mensaje is called with a  *)
(* level or language different from the tutor's current one, the system     *)
(* prompt of that turn's endpoint request reflects the newly selected level *)
(* and language: it names that level and that language.                     *)
C23_Original ==
    (app = "multimodal" /\ pc = "req1" /\ salida.op = "procesar_mensaje") =>
        /\ Contiene(mensajes[1].content, "nivel " \o salida.arg[1])
        /\ Contiene(mensajes[1].content, "en " \o salida.arg[2])

(* C24: in the simple tutor, after construction and after any sequence of   *)
(* actualizar_configuracion calls with valid levels and languages (None     *)
(* arguments and values equal to the current ones included), the system     *)
(* prompt is the one generated from the tutor's current nivel and idioma,   *)
(* and the configuration update leaves the conversation history unchanged.  *)
C24_PromptRegenerado ==
    /\ [](app = "simple" =>
            /\ tutor.nivel \in Niveles
            /\ tutor.system_prompt = PromptTutor("simple", tutor.nivel, tutor.idioma))
    /\ [][ (app = "simple" /\ (salida'.op = "actualizar_configuracion" \/ pc' = "req1")) =>
              historial_conversacion' = historial_conversacion ]_vars

\* after a turn at level secundaria, a direct call changes the language only
C24_Witness ==
    /\ app = "simple" /\ pc = "idle"
    /\ salida = Llamada("actualizar_configuracion", << None, "English" >>, None)
    /\ tutor.nivel = "secundaria" /\ tutor.idioma = "English"
    /\ Len(historial_conversacion) = 2

(* C25: changing a tutor's level to a value that is not a key of            *)
(* NIVELES_EDUCATIVOS is rejected with an error message and leaves the      *)
(* level and the system prompt unchanged, so after any sequence of          *)
(* cambiar_nivel and cambiar_idioma calls the level is a valid key and the  *)
(* system prompt matches the current level and language.                    *)
C25_NivelValido ==
    /\ [](app \in {"gradio", "consola"} =>
            /\ tutor.nivel \in Niveles
            /\ tutor.system_prompt = get_system_prompt_multishot(app, tutor.nivel, tutor.idioma))
    /\ [][ (/\ app \in {"gradio", "consola"}
            /\ salida'.op = "cambiar_nivel"
            /\ salida'.arg \notin Niveles) =>
              (tutor' = tutor /\ salida'.msg = "Nivel no valido") ]_vars

\* an unknown level is asked for after the level and the language have changed
C25_Witness ==
    /\ app = "consola"
    /\ salida = Llamada("cambiar_nivel", "universidad", "Nivel no valido")
    /\ tutor.nivel = "secundaria" /\ tutor.idioma = "English"

----------------------------------------------------------------------------
(* 6_Configurar_Otras_APIS/conversacion_tres_modelos.py: the conversation   *)
(* of three models (app = "tres_modelos"). A round is cut at the three      *)
(* model calls.                                                             *)

MaxNumTurnos == 5   \* num_turnos, up to the default of ejecutar_conversacion

NameError == "NameError"

RespuestasGPT == {"g1", "g2"}
RespuestasClaude == {"c1", "c2"}

InitTres ==
    /\ app = "tres_modelos"
    /\ pc = "idle" /\ turnos = 0 /\ history = << >> /\ historial = << >>
    /\ historial_conversacion = << >>
    /\ mensaje = None /\ mensajes = << >> /\ finish_reason = None /\ tool_calls = << >>
    /\ idx = 0 /\ imagen_resultado = None /\ audio_resultado = None /\ ret = SinRetorno
    /\ peticiones = 0 /\ tools = { } /\ invocados = << >>
    /\ gpt_messages = << "Hola a todos" >>
    /\ claude_messages = << "Hola, encantado de conocerlos" >>
    /\ gemini_messages = << "Saludos" >>
    /\ num_turnos = 0 /\ turno = 0 /\ paso = None
    /\ SinHilos /\ SinConfig /\ SinStream

RestoTres ==
    << app, pc, turnos, history, historial, historial_conversacion, mensaje, finish_reason,
       tool_calls, idx, imagen_resultado, audio_resultado, ret, peticiones, tools, invocados,
       varsHilos, varsConfig, varsStream >>

max_len == LET M == {Len(gpt_messages), Len(claude_messages), Len(gemini_messages)}
           IN  CHOOSE m \in M : \A k \in M : k <= m

\* the list call_gpt / call_claude builds: for i in range(max_len), its own
\* i-th message as assistant, then the i-th of each of the others as user
RECURSIVE Intercalar(_, _, _, _, _, _)
Intercalar(i, propios, otros1, etiqueta1, otros2, etiqueta2) ==
    IF i > max_len THEN << >>
    ELSE (IF i <= Len(propios) THEN << Turno("assistant", propios[i]) >> ELSE << >>)
         \o (IF i <= Len(otros1) THEN << Turno("user", etiqueta1 \o otros1[i]) >> ELSE << >>)
         \o (IF i <= Len(otros2) THEN << Turno("user", etiqueta2 \o otros2[i]) >> ELSE << >>)
         \o Intercalar(i + 1, propios, otros1, etiqueta1, otros2, etiqueta2)

\* ejecutar_conversacion(num_turnos) up to the first model call
ejecutar_conversacion(n) ==
    /\ paso = None
    /\ num_turnos' = n
    /\ turno' = 0
    /\ paso' = IF n > 0 THEN "gpt" ELSE "retorno"
    /\ UNCHANGED << gpt_messages, claude_messages, gemini_messages, mensajes, RestoTres >>

\* call_gpt: the text of the completion, or "Error en GPT: ..." when create() raises
call_gpt(r) ==
    /\ paso = "gpt"
    /\ mensajes' = << Turno("system", "GPT_SYSTEM") >>
                     \o Intercalar(1, gpt_messages, claude_messages, "Claude dice: ",
                                   gemini_messages, "Gemini dice: ")
    /\ gpt_messages' = Append(gpt_messages, r)
    /\ paso' = "claude"
    /\ UNCHANGED << claude_messages, gemini_messages, num_turnos, turno, RestoTres >>

\* call_claude: the text of the message, or "Error en Claude: ..."
call_claude(r) ==
    /\ paso = "claude"
    /\ mensajes' = Intercalar(1, claude_messages, gpt_messages, "GPT dice: ",
                              gemini_messages, "Gemini dice: ")
    /\ claude_messages' = Append(claude_messages, r)
    /\ paso' = "gemini"
    /\ UNCHANGED << gpt_messages, gemini_messages, num_turnos, turno, RestoTres >>

\* call_gemini: line 109 holds the bare name SSS, which is bound nowhere:
\* evaluating it raises NameError before the try block is entered, and
\* ejecutar_conversacion has no handler, so the exception leaves it
call_gemini ==
    /\ paso = "gemini"
    /\ paso' = "excepcion"
    /\ ret' = NameError
    /\ UNCHANGED << gpt_messages, claude_messages, gemini_messages, num_turnos, turno, mensajes,
                    app, pc, turnos, history, historial, historial_conversacion, mensaje,
                    finish_reason, tool_calls, idx, imagen_resultado, audio_resultado,
                    peticiones, tools, invocados, varsHilos, varsConfig, varsStream >>

NextTres ==
    \/ \E n \in 0..MaxNumTurnos : ejecutar_conversacion(n)
    \/ \E r \in RespuestasGPT \cup {"Error en GPT: APIError"} : call_gpt(r)
    \/ \E r \in RespuestasClaude \cup {"Error en Claude: APIError"} : call_claude(r)
    \/ call_gemini

SpecTres == InitTres /\ [][NextTres]_vars

(* C26: ejecutar_conversacion(num_turnos = n) performs n rounds in which    *)
(* GPT, then Claude, then Gemini each contribute one message; a failure in  *)
(* a model call becomes an "Error en ..." message and does not abort the    *)
(* run, so on return each of the three lists has n + 1 entries.             *)
C26_Original ==
    app = "tres_modelos" =>
      /\ paso # "excepcion"
      /\ paso = "retorno" =>
           /\ Len(gpt_messages) = num_turnos + 1
           /\ Len(claude_messages) = num_turnos + 1
           /\ Len(gemini_messages) = num_turnos + 1

----------------------------------------------------------------------------
(* Streaming generators, chunk by chunk:                                    *)
(*   "multi_modelo" : 7_Intro_Gradio/asistente_multi_modelo.py              *)
(*                    (chat_with_model and the three stream_* functions)    *)
(*   "gradio"       : TutorRoboticaGradio.chat under responder_usuario and  *)
(*                    generar_respuesta of the interface                    *)
(* A generator is cut at every chunk the stream delivers.                   *)

MaxChunks == 2         \* chunks a stream delivers
MaxTurnosStream == 2   \* generator calls

AppsStream == {"multi_modelo", "gradio"}

DEFAULT_SYSTEM_MESSAGE == "Eres un asistente util que responde en formato markdown"

Prompts == {"", " ", "hola"}
ModelChoices == {"GPT-4o-mini", "Claude-3-Haiku", "gemini-flash-latest", "otro"}
SystemMessages == {"", " ", "Eres breve"}
Contenidos == {"a", "b", ""}   \* delta.content of a chunk; "" stands for no content

\* the streaming function chat_with_model selects
FuncionDe(model_choice) ==
    CASE model_choice = "GPT-4o-mini" -> "stream_gpt"
      [] model_choice = "Claude-3-Haiku" -> "stream_claude"
      [] model_choice = "gemini-flash-latest" -> "stream_gemini"
      [] OTHER -> None

\* the except branch of each streaming function
error_stream(fn) ==
    CASE fn = "stream_gpt" -> "X Error con GPT: APIError"
      [] fn = "stream_claude" -> "X Error con Claude: APIError"
      [] OTHER -> "X Error con Gemini: APIError"

\* str.strip() for blanks
RECURSIVE strip(_)
strip(texto) ==
    IF texto = "" THEN ""
    ELSE IF SubSeq(texto, 1, 1) = " " THEN strip(SubSeq(texto, 2, Len(texto)))
    ELSE IF SubSeq(texto, Len(texto), Len(texto)) = " " THEN strip(SubSeq(texto, 1, Len(texto) - 1))
    ELSE texto

\* mutant: only the empty system message is replaced
SystemMessageEfectivo_mut(sm) == IF sm = "" THEN DEFAULT_SYSTEM_MESSAGE ELSE sm

\* if not system_message.strip(): system_message = DEFAULT_SYSTEM_MESSAGE
SystemMessageEfectivo(sm) == IF strip(sm) = "" THEN DEFAULT_SYSTEM_MESSAGE ELSE sm

\* mutant: the chunk alone is yielded
Acumular_mut(acumulado, content) == content

\* response += content
Acumular(acumulado, content) == acumulado \o content

InitStream ==
    /\ app \in AppsStream
    /\ pc = "idle" /\ turnos = 0 /\ history = << >> /\ historial = << >>
    /\ historial_conversacion = << >>
    /\ mensaje = None /\ mensajes = << >> /\ finish_reason = None /\ tool_calls = << >>
    /\ idx = 0 /\ imagen_resultado = None /\ audio_resultado = None /\ ret = SinRetorno
    /\ peticiones = 0 /\ tools = { } /\ invocados = << >>
    /\ SinStream
    /\ SinHilos /\ SinConfig /\ SinTres

RestoStream ==
    << app, pc, history, historial_conversacion, mensaje, finish_reason, tool_calls, idx,
       imagen_resultado, audio_resultado, ret, peticiones, tools, invocados,
       varsHilos, varsConfig, varsTres >>

EnReposoStream == fase \in {None, "fin", "error"}

\* chat_with_model(prompt, model_choice, system_message) up to its first wait
chat_with_model(prompt, model_choice, sm) ==
    /\ app = "multi_modelo"
    /\ EnReposoStream
    /\ turnos < MaxTurnosStream
    /\ turnos' = turnos + 1
    /\ llamada' = [prompt |-> prompt, model_choice |-> model_choice, system_message |-> sm]
    /\ chunks' = << >>
    /\ response' = ""
    /\ IF strip(prompt) = ""
       THEN /\ yields' = << "Por favor, escribe un mensaje." >>
            /\ invocadas' = << >>
            /\ fase' = "fin"
       ELSE IF FuncionDe(model_choice) # None
            THEN /\ invocadas' = << [fn |-> FuncionDe(model_choice), prompt |-> prompt,
                                    system_message |-> SystemMessageEfectivo(sm)] >>
                 /\ yields' = << >>
                 /\ fase' = "stream"
            ELSE /\ yields' = << "X Modelo no valido seleccionado." >>
                 /\ invocadas' = << >>
                 /\ fase' = "fin"
    /\ UNCHANGED << historial, mensajes, RestoStream >>

\* interface of the streaming tutor: responder_usuario(message, history)
responder_usuario(m) ==
    /\ app = "gradio"
    /\ EnReposoStream
    /\ turnos < MaxTurnosStream
    /\ turnos' = turnos + 1
    /\ historial' = Append(historial, << m, "" >>)
    /\ fase' = "then"
    /\ UNCHANGED << mensajes, llamada, invocadas, chunks, response, yields, RestoStream >>

\* generar_respuesta(history) up to the create() of tutor.chat
IniciarGenerarRespuesta ==
    /\ app = "gradio"
    /\ fase = "then"
    /\ LET user_message == historial[Len(historial)][1]
           previo == openai_history(SubSeq(historial, 1, Len(historial) - 1))
       IN  /\ llamada' = [message |-> user_message, history |-> previo]
           /\ mensajes' = << SystemTurn(app) >> \o previo \o << Turno("user", user_message) >>
           /\ invocadas' = << [fn |-> "chat", prompt |-> user_message, system_message |-> system_prompt] >>
    /\ historial' = [historial EXCEPT ![Len(historial)][2] = ""]
    /\ chunks' = << >>
    /\ response' = ""
    /\ yields' = << >>
    /\ fase' = "stream"
    /\ UNCHANGED << turnos, RestoStream >>

\* one pass of "for chunk in stream": a chunk with content is added to the
\* text and the text is yielded; the interface puts it in the last pair
LlegaChunk(content) ==
    /\ fase = "stream"
    /\ Len(chunks) < MaxChunks
    /\ chunks' = Append(chunks, content)
    /\ IF content # ""
       THEN /\ response' = Acumular(response, content)
            /\ yields' = Append(yields, response')
            /\ historial' = IF app = "gradio"
                            THEN [historial EXCEPT ![Len(historial)][2] = response']
                            ELSE historial
       ELSE UNCHANGED << response, yields, historial >>
    /\ UNCHANGED << turnos, mensajes, llamada, invocadas, fase, RestoStream >>

\* the stream is exhausted: the generator returns
TerminaStream ==
    /\ fase = "stream"
    /\ fase' = "fin"
    /\ UNCHANGED << turnos, historial, mensajes, llamada, invocadas, chunks, response, yields,
                    RestoStream >>

\* create() or the iteration raises: the except branch yields the error text
FallaGenerador ==
    /\ fase = "stream"
    /\ fase' = "error"
    /\ LET texto == IF app = "gradio" THEN error_msg_gradio ELSE error_stream(invocadas[1].fn)
       IN  /\ yields' = Append(yields, texto)
           /\ historial' = IF app = "gradio"
                           THEN [historial EXCEPT ![Len(historial)][2] = texto]
                           ELSE historial
    /\ UNCHANGED << turnos, mensajes, llamada, invocadas, chunks, response, RestoStream >>

NextStream ==
    \/ \E prompt \in Prompts : \E model_choice \in ModelChoices : \E sm \in SystemMessages :
          chat_with_model(prompt, model_choice, sm)
    \/ \E m \in MensajesUsuario : responder_usuario(m)
    \/ IniciarGenerarRespuesta
    \/ \E content \in Contenidos : LlegaChunk(content)
    \/ TerminaStream
    \/ FallaGenerador

SpecStream == InitStream /\ [][NextStream]_vars

\* a chat_with_model call has been made
LlamadaHecha == app = "multi_modelo" /\ fase # None

\* the streaming functions called for the current call are exactly fn, with
\* the prompt and the effective system message
UnaSolaFuncion ==
    /\ Len(invocadas) = 1
    /\ invocadas[1].fn = FuncionDe(llamada.model_choice)
    /\ invocadas[1].prompt = llamada.prompt
    /\ invocadas[1].system_message =
          (IF llamada.system_message \in {"", " "} THEN DEFAULT_SYSTEM_MESSAGE
                                                   ELSE llamada.system_message)

(* C27: chat_with_model invokes exactly one model streaming function per    *)
(* non-empty prompt, the one named by model_choice, and none for an unknown *)
(* model choice (a single error message is yielded instead); an empty or    *)
(* whitespace-only system message is replaced by the default one before the *)
(* call (the claim as stated: every prompt other than "").                  *)
C27_Original ==
    (LlamadaHecha /\ llamada.prompt # "") =>
        IF FuncionDe(llamada.model_choice) # None
        THEN UnaSolaFuncion
        ELSE invocadas = << >> /\ yields = << "X Modelo no valido seleccionado." >>

(* C27 amended: chat_with_model invokes exactly one model streaming         *)
(* function per prompt that is neither empty nor whitespace-only, the one   *)
(* named by model_choice, and none for an unknown model choice (a single    *)
(* error message is yielded instead); an empty or whitespace-only system    *)
(* message is replaced by the default one before the call. For an empty or  *)
(* whitespace-only prompt no function is invoked and the only value yielded *)
(* asks for a message.                                                      *)
C27_Corregida ==
    LlamadaHecha =>
        IF llamada.prompt \in {"", " "}
        THEN invocadas = << >> /\ yields = << "Por favor, escribe un mensaje." >>
        ELSE IF FuncionDe(llamada.model_choice) # None
             THEN UnaSolaFuncion
             ELSE invocadas = << >> /\ yields = << "X Modelo no valido seleccionado." >>

\* Claude has streamed two chunks for a call with a blank system message
C27_Witness ==
    /\ app = "multi_modelo" /\ fase = "fin"
    /\ llamada = [prompt |-> "hola", model_choice |-> "Claude-3-Haiku", system_message |-> " "]
    /\ invocadas = << [fn |-> "stream_claude", prompt |-> "hola",
                       system_message |-> DEFAULT_SYSTEM_MESSAGE] >>
    /\ yields = << "a", "ab" >>

EsPrefijo(s1, s2) == Len(s1) <= Len(s2) /\ SubSeq(s2, 1, Len(s1)) = s1

RECURSIVE Concatenar(_)
Concatenar(textos) == IF textos = << >> THEN "" ELSE Head(textos) \o Concatenar(Tail(textos))

\* the [user, assistant] pairs as role-tagged turns, in order, one turn per
\* non-empty text
TurnosDePares(pares) ==
    SelectSeq([i \in 1..(2 * Len(pares)) |->
                  IF i % 2 = 1 THEN Turno("user", pares[(i + 1) \div 2][1])
                               ELSE Turno("assistant", pares[i \div 2][2])],
              LAMBDA t : t.content # "")

(* C30: the streaming chat of the Gradio tutor yields cumulative text: each *)
(* yielded value extends the one before it as a prefix and the last value   *)
(* is the concatenation of all content chunks in arrival order; if the      *)
(* stream fails, the last value yielded is the error message alone; the     *)
(* conversion of the UI pair history to role-tagged turns keeps the order   *)
(* and leaves out the pair being answered.                                  *)
C30_TextoAcumulado ==
    (app = "gradio" /\ fase \in {"stream", "fin", "error"}) =>
        /\ \A i \in 1..(Len(yields) - 1) :
              yields[i + 1] # error_msg_gradio =>
                  (EsPrefijo(yields[i], yields[i + 1]) /\ Len(yields[i]) < Len(yields[i + 1]))
        /\ (fase # "error" /\ yields # << >>) => yields[Len(yields)] = Concatenar(chunks)
        /\ fase = "error" => (yields # << >> /\ yields[Len(yields)] = error_msg_gradio)
        /\ yields # << >> => historial[Len(historial)][2] = yields[Len(yields)]
        /\ mensajes = << SystemTurn(app) >>
                        \o TurnosDePares(SubSeq(historial, 1, Len(historial) - 1))
                        \o << Turno("user", historial[Len(historial)][1]) >>

\* the second question is answered in two chunks after the first one failed
C30_Witness ==
    /\ app = "gradio" /\ fase = "fin"
    /\ Len(historial) = 2
    /\ historial[1] = << "hola", error_msg_gradio >>
    /\ chunks = << "a", "b" >>
    /\ yields = << "a", "ab" >>
    /\ historial[2] = << "arduino", "ab" >>

====
